---- MODULE Spec2Model ----
(***************************************************************************)
(* A model of the enrichment pipelines of scripts/import_new_questions_csv *)
(* and scripts/migrate, of the question generator scripts/generate, and of *)
(* the resets scripts/cleanup_previous_import and scripts/cleanup_imports. *)
(* Threads, locks, files and the oracle are modelled step by step; text is *)
(* a sequence of one-character strings so that lower(), replace() and the  *)
(* substring test of the routers are computed, not assumed.  The letters   *)
(* outside ASCII are written "ouml", "auml", "aring", "Ouml", "Auml",      *)
(* "Aring".                                                                *)
(***************************************************************************)
EXTENDS Naturals, Integers, Sequences, FiniteSets, TLC

(***************************************************************************)
(* Text                                                                    *)
(***************************************************************************)
UpperChars == <<"A","B","C","D","E","F","G","H","I","J","K","L","M","N","O","P","Q","R","S","T","U","V","W","X","Y","Z","Ouml","Auml","Aring">>

LowerChars == <<"a","b","c","d","e","f","g","h","i","j","k","l","m","n","o","p","q","r","s","t","u","v","w","x","y","z","ouml","auml","aring">>

\* str.lower() on one character
LowerChar(c) ==
  IF \E i \in DOMAIN UpperChars : UpperChars[i] = c
    THEN LowerChars[CHOOSE i \in DOMAIN UpperChars : UpperChars[i] = c]
    ELSE c

\* str.lower()
Lower(s) == [i \in DOMAIN s |-> LowerChar(s[i])]

\* str.replace(a, b) for one-character a and b
Replace(s, a, b) == [i \in DOMAIN s |-> IF s[i] = a THEN b ELSE s[i]]

\* the test "k in s" on text
Contains(k, s) ==
  \E i \in 0..(Len(s) - Len(k)) : SubSeq(s, i + 1, i + Len(k)) = k

\* the slice s[:n]
Prefix(s, n) == SubSeq(s, 1, IF Len(s) < n THEN Len(s) ELSE n)

(***************************************************************************)
(* CATEGORY_FILES: the same table in both scripts, in insertion order      *)
(***************************************************************************)
CATEGORY_FILES == <<
  [key |-> <<"n","e","u","r","o","l","o","g","i">>,
   file |-> "neurologi.yaml"],
  [key |-> <<"i","n","t","e","r","n","m","e","d","i","c","i","n">>,
   file |-> "internmedicin.yaml"],
  [key |-> <<"a","l","l","m","a","n","m","e","d","i","c","i","n">>,
   file |-> "allmanmedicin.yaml"],
  [key |-> <<"p","s","y","k","i","a","t","r","i">>,
   file |-> "psykiatri.yaml"],
  [key |-> <<"o","r","t","o","p","e","d","i">>,
   file |-> "ortopedi.yaml"],
  [key |-> <<"k","i","r","u","r","g","i">>,
   file |-> "kirurgi.yaml"],
  [key |-> <<"a","k","u","t","m","e","d","i","c","i","n">>,
   file |-> "akutmedicin.yaml"],
  [key |-> <<"d","i","a","b","e","t","o","l","o","g","i">>,
   file |-> "diabetologi.yaml"],
  [key |-> <<"e","n","d","o","k","r","i","n","o","l","o","g","i">>,
   file |-> "endokrinologi.yaml"],
  [key |-> <<"g","a","s","t","r","o","e","n","t","e","r","o","l","o","g","i">>,
   file |-> "gastroenterologi.yaml"],
  [key |-> <<"h","e","p","a","t","o","l","o","g","i">>,
   file |-> "hepatologi.yaml"],
  [key |-> <<"h","e","m","a","t","o","l","o","g","i">>,
   file |-> "hematologi.yaml"],
  [key |-> <<"k","a","r","d","i","o","l","o","g","i">>,
   file |-> "kardiologi.yaml"],
  [key |-> <<"l","u","n","g","m","e","d","i","c","i","n">>,
   file |-> "lungmedicin.yaml"],
  [key |-> <<"n","j","u","r","m","e","d","i","c","i","n">>,
   file |-> "njurmedicin.yaml"],
  [key |-> <<"k","l","i","n","i","s","k"," ","f","a","r","m","a","k","o","l","o","g","i">>,
   file |-> "klinisk_farmakologi.yaml"],
  [key |-> <<"o","r","o","n","-","n","a","s","a","-","h","a","l","s">>,
   file |-> "oron_nasa_hals.yaml"],
  [key |-> <<"o","r","o","n","-","n","a","s","a","-","h","a","l","s","-","s","j","u","k","d","o","m","a","r">>,
   file |-> "oron_nasa_hals.yaml"] >>

\* the labels of the closed category enumeration of build_schema
CategoryEnum == <<
  <<"N","e","u","r","o","l","o","g","i">>,
  <<"I","n","t","e","r","n","m","e","d","i","c","i","n">>,
  <<"A","l","l","m","auml","n","m","e","d","i","c","i","n">>,
  <<"P","s","y","k","i","a","t","r","i">>,
  <<"O","r","t","o","p","e","d","i">>,
  <<"K","i","r","u","r","g","i">>,
  <<"A","k","u","t","m","e","d","i","c","i","n">>,
  <<"D","i","a","b","e","t","o","l","o","g","i">>,
  <<"E","n","d","o","k","r","i","n","o","l","o","g","i">>,
  <<"G","a","s","t","r","o","e","n","t","e","r","o","l","o","g","i">>,
  <<"H","e","p","a","t","o","l","o","g","i">>,
  <<"H","e","m","a","t","o","l","o","g","i">>,
  <<"K","a","r","d","i","o","l","o","g","i">>,
  <<"L","u","n","g","m","e","d","i","c","i","n">>,
  <<"N","j","u","r","m","e","d","i","c","i","n">>,
  <<"K","l","i","n","i","s","k"," ","F","a","r","m","a","k","o","l","o","g","i">>,
  <<"Ouml","r","o","n","-","N","auml","s","a","-","H","a","l","s">> >>

\* a get_dest_file without its last line: no destination when no key matches
get_dest_file_no_fallback(category) ==
  LET normalized ==
        Replace(Replace(Replace(Replace(Replace(Lower(category),
          "ouml", "o"), "auml", "a"), "aring", "a"), " ", "_"), "-", "_")
      exact == {i \in DOMAIN CATEGORY_FILES : CATEGORY_FILES[i].key = Lower(category)}
      fuzzy == {i \in DOMAIN CATEGORY_FILES : Contains(CATEGORY_FILES[i].key, normalized)}
      First(S) == CHOOSE i \in S : \A j \in S : i <= j
  IN  IF exact # {} THEN CATEGORY_FILES[First(exact)].file
      ELSE IF fuzzy # {} THEN CATEGORY_FILES[First(fuzzy)].file
      ELSE ""

\* get_dest_file(category) of import_new_questions_csv.py
get_dest_file(category) ==
  LET normalized ==
        Replace(Replace(Replace(Replace(Replace(Lower(category),
          "ouml", "o"), "auml", "a"), "aring", "a"), " ", "_"), "-", "_")
      exact == {i \in DOMAIN CATEGORY_FILES : CATEGORY_FILES[i].key = Lower(category)}
      fuzzy == {i \in DOMAIN CATEGORY_FILES : Contains(CATEGORY_FILES[i].key, normalized)}
      First(S) == CHOOSE i \in S : \A j \in S : i <= j
  IN  IF exact # {} THEN CATEGORY_FILES[First(exact)].file
      ELSE IF fuzzy # {} THEN CATEGORY_FILES[First(fuzzy)].file
      ELSE "blandat.yaml"

\* category_name of process_question in migrate.py
category_name(category) ==
  Replace(Replace(Replace(Replace(Lower(category),
    "ouml", "o"), "auml", "a"), "aring", "a"), " ", "_")

\* target_file of process_question in migrate.py
target_file(category) ==
  LET fuzzy == {i \in DOMAIN CATEGORY_FILES :
                  Contains(CATEGORY_FILES[i].key, category_name(category))}
      First(S) == CHOOSE i \in S : \A j \in S : i <= j
  IN  IF fuzzy # {} THEN CATEGORY_FILES[First(fuzzy)].file
      ELSE "internmedicin.yaml"

(***************************************************************************)
(* Bounds and scaled program constants                                     *)
(***************************************************************************)
\* number of rows of the source collection
NumRows == 3

\* number of times a script is started
MaxRuns == 2

\* WORKERS of import_new_questions_csv.main, scaled down from 25
WORKERS == 2

\* max_workers of the pool of migrate.main, scaled down from 5 (as in the
\* script, less than BATCH_SIZE)
MAX_WORKERS == 1

\* BATCH_SIZE of migrate.main, scaled down from 10
BATCH_SIZE == 2

Rows == 1..NumRows

\* thread 0 is the main thread; thread r is the pool task of row r
Main == 0

Threads == {Main} \cup Rows

\* the category labels the oracle answers with in the pipeline model
OracleLabels == {CategoryEnum[1], CategoryEnum[13]}

\* the store files under DEST_DIR the routers can name: the files of the
\* table and the fallbacks of get_dest_file and of process_question
DestFiles ==
  {CATEGORY_FILES[i].file : i \in DOMAIN CATEGORY_FILES}
    \cup {"blandat.yaml", "internmedicin.yaml"}

\* get_topics('korkortsteori'): a topic file of the other subject generate.py
\* writes for (its name differs from the names under DEST_DIR)
KorFiles == {"trafikregler.yaml"}

\* the store files of the model, keyed by file name
Files == DestFiles \cup KorFiles

(***************************************************************************)
(* Files.  A file is absent, empty (opened with mode 'w' and nothing       *)
(* written yet), a complete document, or garbled (a partial document).     *)
(***************************************************************************)
AbsentList == [st |-> "absent", v |-> <<>>]

EmptyList == [st |-> "empty", v |-> <<>>]

DocList(l) == [st |-> "doc", v |-> l]

AbsentSet == [st |-> "absent", v |-> {}]

EmptySet == [st |-> "empty", v |-> {}]

DocSet(s) == [st |-> "doc", v |-> s]

\* a load_log() that finds no log
load_log_nothing(file) == {}

\* load_log() of import_new_questions_csv.py: any failure to parse gives set()
load_log(file) == IF file.st = "doc" THEN file.v ELSE {}

\* the read of safe_append_yaml: absent, empty (None) and YAMLError give []
read_existing(file) == IF file.st = "doc" THEN file.v ELSE <<>>

\* the records persisted in a store file
Persisted(file) == IF file.st = "doc" THEN file.v ELSE <<>>

\* the ids persisted in a log file
LogIds(file) == IF file.st = "doc" THEN file.v ELSE {}

Range(s) == {s[i] : i \in DOMAIN s}

(***************************************************************************)
(* State                                                                   *)
(***************************************************************************)
VARIABLES
  store,            \* DEST_DIR: store file name -> file holding a list of records
  importLog,        \* the file IMPORT_LOG, holding a set of ids
  migrationLog,     \* the file MIGRATION_LOG, holding a set of ids
  source,           \* the source collection: a sequence of rows [id, poison]
  labels,           \* the category labels the oracle answers with
  topic,            \* the topic file the operator selects in generate.py
  subject,          \* the subject the operator selects in generate.py
  script,           \* the script started last, "none" before the first start
  running,          \* TRUE while that script's process is alive
  runs,             \* number of script starts so far
  pc,               \* thread -> position in its code
  processed,        \* main: processed (import), processed_ids (migrate)
  idx,              \* main: the row being scanned (import), the batch start i (migrate),
                    \* the position in the listing (cleanup scripts)
  rows_to_process,  \* main: rows_to_process (import), to_process (migrate),
                    \* the listing of DATA_DIR (cleanup scripts)
  file_locks,       \* the defaultdict file_locks: file name -> lock object, 0 for no key
  held,             \* the locks held: pairs <<lock object, thread>>
  lk,               \* task: the lock object file_locks[filename] gave it
  dest,             \* task: dest_file (import), target_file (migrate)
  q_data,           \* task: the enriched record with its id
  existing,         \* thread: existing_data (import), existing (migrate)
  current,          \* thread: current of append_to_log
  batch_results,    \* main: current_batch_results of migrate, in insertion order
  calls,            \* history: oracle requests issued in this run
  writes,           \* history: store files opened for writing in this run
  outcome,          \* history: row -> what this run did with it
  start,            \* history: the files when this run started
  prev,             \* history: script and outcomes of the run before this one
  printed,          \* the lines this run has printed: failures and the closing line
  appended,         \* history: store file -> the records safe_append_yaml has dumped to it
  total_removed     \* main: total_removed of cleanup_imports, questions_removed of
                    \* cleanup_previous_import

disk == <<store, importLog, migrationLog>>

control == <<script, running, runs>>

mainLocals == <<processed, idx, rows_to_process, batch_results>>

taskLocals == <<dest, q_data, existing, current>>

locks == <<file_locks, held, lk>>

history == <<calls, writes, outcome, start, prev>>

input == <<source, labels, topic, subject>>

observed == <<printed, appended, total_removed>>

vars == <<disk, input, control, pc, mainLocals, taskLocals, locks, history, observed>>

NoRec == [id |-> [ns |-> "", cat |-> <<>>, hex |-> 0], q |-> 0]

NoOutcome == [r \in Rows |-> "none"]

\* a printed line: what it says, the id it names, the exception it shows
\* and the numbers in it
Line(kind, id, cause, counts) ==
  [kind |-> kind, id |-> id, cause |-> cause, counts |-> counts]

\* the values uuid4().hex[:n] can take: one already in use, or a new one
HexOf(l) == {l[i].id.hex : i \in DOMAIN l}

UsedHex ==
  UNION {HexOf(store[f].v) : f \in Files}
    \cup {q_data[w].id.hex : w \in Rows}
    \cup UNION {HexOf(existing[t]) : t \in Threads}

Max(S) == CHOOSE m \in S : \A n \in S : n <= m

HexChoices == (UsedHex \ {0}) \cup {1 + Max(UsedHex \cup {0})}

\* the source collections of n rows with distinct ids; row 1 may ask for an image
Sources(n) ==
  {[r \in 1..n |-> [id |-> r, poison |-> (r \in P)]] : P \in {{}, {1}}}

\* the rows of the source collection
SourceRows == DOMAIN source

\* nothing has run yet: no store, no log
Blank ==
  /\ store = [f \in Files |-> AbsentList]
  /\ importLog = AbsentSet
  /\ migrationLog = AbsentSet

\* no script is running and none has run
Idle ==
  /\ script = "none"
  /\ running = FALSE
  /\ runs = 0
  /\ pc = [t \in Threads |-> "idle"]
  /\ processed = {}
  /\ idx = 0
  /\ rows_to_process = <<>>
  /\ file_locks = [f \in Files |-> 0]
  /\ held = {}
  /\ lk = [w \in Rows |-> 0]
  /\ dest = [w \in Rows |-> ""]
  /\ q_data = [w \in Rows |-> NoRec]
  /\ existing = [t \in Threads |-> <<>>]
  /\ current = [t \in Threads |-> {}]
  /\ batch_results = <<>>
  /\ calls = 0
  /\ writes = 0
  /\ outcome = NoOutcome
  /\ start = [store |-> store, importLog |-> importLog, migrationLog |-> migrationLog]
  /\ prev = [script |-> "none", outcome |-> NoOutcome]
  /\ printed = {}
  /\ appended = [f \in Files |-> {}]
  /\ total_removed = 0

Fresh == Blank /\ Idle

Init ==
  /\ Fresh
  /\ topic = "neurologi.yaml"
  /\ subject = "medical_exam"
  /\ source \in Sources(NumRows)
  /\ labels = OracleLabels

(***************************************************************************)
(* Starting and ending a script                                            *)
(***************************************************************************)
\* the operator starts a script, python scripts/<s>.py, or starts it again
\* (a behaviour follows the runs of one pipeline over its source and log)
StartRun(s) ==
  /\ ~running
  /\ script \in {"none", s}
  /\ runs < MaxRuns
  /\ script' = s
  /\ running' = TRUE
  /\ runs' = runs + 1
  /\ pc' = [pc EXCEPT ![Main] = "load_log"]
  /\ calls' = 0
  /\ writes' = 0
  /\ outcome' = NoOutcome
  /\ start' = [store |-> store, importLog |-> importLog, migrationLog |-> migrationLog]
  /\ prev' = [script |-> script, outcome |-> outcome]
  /\ printed' = {}
  /\ total_removed' = 0
  /\ UNCHANGED <<disk, input, appended, mainLocals, taskLocals, locks>>

\* the process exits: its threads, locks and locals are gone
ProcessExit ==
  /\ running' = FALSE
  /\ pc' = [t \in Threads |-> "idle"]
  /\ processed' = {}
  /\ idx' = 0
  /\ rows_to_process' = <<>>
  /\ batch_results' = <<>>
  /\ file_locks' = [f \in Files |-> 0]
  /\ held' = {}
  /\ lk' = [w \in Rows |-> 0]
  /\ dest' = [w \in Rows |-> ""]
  /\ q_data' = [w \in Rows |-> NoRec]
  /\ existing' = [t \in Threads |-> <<>>]
  /\ current' = [t \in Threads |-> {}]
  /\ UNCHANGED <<input, script, runs>>

(***************************************************************************)
(* The thread pool (both scripts): tasks start in submission order, at     *)
(* most `budget` of them at a time                                         *)
(***************************************************************************)
Submitted == Range(rows_to_process)

Queued == {w \in Rows : pc[w] = "queued"}

\* the tasks a pool thread is executing
InPool == {w \in Rows : pc[w] \notin {"idle", "queued", "done", "returned", "collected"}}

\* position of row w in rows_to_process
Pos(w) == CHOOSE i \in DOMAIN rows_to_process : rows_to_process[i] = w

NextQueued(w) == w \in Queued /\ \A v \in Queued : Pos(w) <= Pos(v)

Budget == IF script = "import" THEN WORKERS ELSE MAX_WORKERS

\* a pool that starts a thread for every queued task
StartTaskUnbounded(w) ==
  /\ running
  /\ NextQueued(w)
  /\ pc' = [pc EXCEPT ![w] = "oracle"]
  /\ calls' = calls + 1
  /\ UNCHANGED <<disk, input, observed, control, mainLocals, taskLocals, locks,
                 writes, outcome, start, prev>>

\* a pool thread takes the next task and issues the oracle request
StartTask(w) ==
  /\ running
  /\ NextQueued(w)
  /\ Cardinality(InPool) < Budget
  /\ pc' = [pc EXCEPT ![w] = "oracle"]
  /\ calls' = calls + 1
  /\ UNCHANGED <<disk, input, observed, control, mainLocals, taskLocals, locks,
                 writes, outcome, start, prev>>

(***************************************************************************)
(* Locks                                                                   *)
(***************************************************************************)
\* Lock objects are numbered: log_lock is object 0, and the locks that
\* file_locks makes are numbered from 1 in the order they are made.
log_lock == 0

\* a lock whose acquire() never waits
LockNeverBlocks(lock) == TRUE

\* threading.Lock: acquire() returns only while no thread holds the lock
LockFree(lock) == \A h \in held : h[1] # lock

\* a lookup that makes a new lock on every call
file_locks_getitem_fresh(fl, filename) ==
  [fl EXCEPT ![filename] = 1 + Max({fl[f] : f \in DOMAIN fl})]

\* a lookup that hands out one lock for every file name
file_locks_getitem_shared(fl, filename) == [f \in DOMAIN fl |-> 1]

\* file_locks[filename] on defaultdict(threading.Lock): a missing key gets a
\* new lock, made and stored with no other thread running in between; the
\* result is the dictionary afterwards
file_locks_getitem(fl, filename) ==
  IF fl[filename] # 0 THEN fl
  ELSE [fl EXCEPT ![filename] = 1 + Max({fl[f] : f \in DOMAIN fl})]

(***************************************************************************)
(* import_new_questions_csv.py: append_to_log(processed_id), run by the    *)
(* main thread for a poison row and by a task after its store append       *)
(***************************************************************************)
\* the argument processed_id of the call thread t is in
LogArg(t) == IF t = Main THEN source[idx].id ELSE source[t].id

\* append_to_log without its lock
LogAcquireNoWait(t) ==
  /\ pc[t] = "log_acquire"
  /\ pc' = [pc EXCEPT ![t] = "log_read"]
  /\ UNCHANGED <<disk, input, observed, control, mainLocals, taskLocals, locks, history>>

\* with log_lock: (enter)
LogAcquire(t) ==
  /\ pc[t] = "log_acquire"
  /\ LockFree(log_lock)
  /\ held' = held \cup {<<log_lock, t>>}
  /\ pc' = [pc EXCEPT ![t] = "log_read"]
  /\ UNCHANGED <<disk, input, observed, control, mainLocals, taskLocals, file_locks, lk, history>>

\* current = load_log(); current.add(processed_id)
LogRead(t) ==
  /\ pc[t] = "log_read"
  /\ current' = [current EXCEPT ![t] = load_log(importLog) \cup {LogArg(t)}]
  /\ pc' = [pc EXCEPT ![t] = "log_open"]
  /\ UNCHANGED <<disk, input, observed, control, mainLocals, dest, q_data, existing, locks, history>>

\* open(IMPORT_LOG, 'w') truncates the file
LogOpen(t) ==
  /\ pc[t] = "log_open"
  /\ importLog' = EmptySet
  /\ pc' = [pc EXCEPT ![t] = "log_dump"]
  /\ UNCHANGED <<store, migrationLog, input, observed, control, mainLocals, taskLocals, locks, history>>

\* json.dump(list(current), f) and the close of the file
LogDump(t) ==
  /\ pc[t] = "log_dump"
  /\ importLog' = DocSet(current[t])
  /\ current' = [current EXCEPT ![t] = {}]
  /\ pc' = [pc EXCEPT ![t] = "log_release"]
  /\ UNCHANGED <<store, migrationLog, input, observed, control, mainLocals, dest, q_data, existing,
                 locks, history>>

\* an append_to_log that returns with log_lock still held
LogReleaseKeepsLock(t) ==
  /\ pc[t] = "log_release"
  /\ IF t = Main
       THEN /\ pc' = [pc EXCEPT ![t] = "scan"]
            /\ idx' = idx + 1
            /\ outcome' = [outcome EXCEPT ![idx] = "poison"]
       ELSE /\ pc' = [pc EXCEPT ![t] = "done"]
            /\ UNCHANGED <<idx, outcome>>
  /\ UNCHANGED <<disk, input, observed, control, processed, rows_to_process, batch_results,
                 taskLocals, locks, calls, writes, start, prev>>

\* with log_lock: (exit), then the caller goes on: main to its next row,
\* a task to "return True"
LogRelease(t) ==
  /\ pc[t] = "log_release"
  /\ held' = held \ {<<log_lock, t>>}
  /\ IF t = Main
       THEN /\ pc' = [pc EXCEPT ![t] = "scan"]
            /\ idx' = idx + 1
            /\ outcome' = [outcome EXCEPT ![idx] = "poison"]
       ELSE /\ pc' = [pc EXCEPT ![t] = "done"]
            /\ UNCHANGED <<idx, outcome>>
  /\ UNCHANGED <<disk, input, observed, control, processed, rows_to_process, batch_results,
                 taskLocals, file_locks, lk, calls, writes, start, prev>>

(***************************************************************************)
(* import_new_questions_csv.py: main                                       *)
(***************************************************************************)
\* processed = load_log()
ImpLoadLog ==
  /\ running /\ script = "import"
  /\ pc[Main] = "load_log"
  /\ processed' = load_log(importLog)
  /\ idx' = 1
  /\ pc' = [pc EXCEPT ![Main] = "scan"]
  /\ UNCHANGED <<disk, input, observed, control, rows_to_process, batch_results, taskLocals,
                 locks, history>>

\* for row in reader: if csv_id in processed: continue
ImpScanSkip ==
  /\ running /\ script = "import"
  /\ pc[Main] = "scan" /\ idx \in SourceRows
  /\ source[idx].id \in processed
  /\ idx' = idx + 1
  /\ outcome' = [outcome EXCEPT ![idx] = "skipped"]
  /\ UNCHANGED <<disk, input, observed, control, pc, processed, rows_to_process, batch_results,
                 taskLocals, locks, calls, writes, start, prev>>

\* a main that passes over an image row without writing its id to the log
ImpScanPoisonUnmarked ==
  /\ running /\ script = "import"
  /\ pc[Main] = "scan" /\ idx \in SourceRows
  /\ source[idx].id \notin processed
  /\ source[idx].poison
  /\ idx' = idx + 1
  /\ outcome' = [outcome EXCEPT ![idx] = "poison"]
  /\ UNCHANGED <<disk, input, observed, control, pc, processed, rows_to_process, batch_results,
                 taskLocals, locks, calls, writes, start, prev>>

\* if "SE BILD" in question: append_to_log(csv_id); continue
ImpScanPoison ==
  /\ running /\ script = "import"
  /\ pc[Main] = "scan" /\ idx \in SourceRows
  /\ source[idx].id \notin processed
  /\ source[idx].poison
  /\ pc' = [pc EXCEPT ![Main] = "log_acquire"]
  /\ UNCHANGED <<disk, input, observed, control, mainLocals, taskLocals, locks, history>>

\* rows_to_process.append(...)
ImpScanKeep ==
  /\ running /\ script = "import"
  /\ pc[Main] = "scan" /\ idx \in SourceRows
  /\ source[idx].id \notin processed
  /\ ~source[idx].poison
  /\ rows_to_process' = Append(rows_to_process, idx)
  /\ idx' = idx + 1
  /\ UNCHANGED <<disk, input, observed, control, pc, processed, batch_results, taskLocals,
                 locks, history>>

\* futures = {executor.submit(process_data, r, r['id']): ... for r in rows_to_process}
ImpSubmit ==
  /\ running /\ script = "import"
  /\ pc[Main] = "scan" /\ idx \notin SourceRows
  /\ pc' = [t \in Threads |->
              IF t = Main THEN "join"
              ELSE IF t \in Submitted THEN "queued" ELSE pc[t]]
  /\ printed' = printed \cup {Line("found", 0, "", <<Len(rows_to_process)>>)}
  /\ UNCHANGED <<disk, input, appended, total_removed, control, mainLocals, taskLocals,
                 locks, history>>

\* as_completed is exhausted, the pool is shut down, print("Done!")
ImpDone ==
  /\ running /\ script = "import"
  /\ pc[Main] = "join"
  /\ \A w \in Submitted : pc[w] = "done"
  /\ ProcessExit
  /\ printed' = printed \cup {Line("done", 0, "", <<>>)}
  /\ UNCHANGED <<disk, history, appended, total_removed>>

(***************************************************************************)
(* import_new_questions_csv.py: process_data(row, original_csv_id)         *)
(***************************************************************************)
\* a process_data that logs the id and never saves the record
ImpOracleOkLogOnly(w, label, hex) ==
  /\ running /\ script = "import"
  /\ pc[w] = "oracle"
  /\ q_data' = [q_data EXCEPT ![w] =
                  [id |-> [ns |-> "imp", cat |-> <<>>, hex |-> hex], q |-> source[w].id]]
  /\ dest' = [dest EXCEPT ![w] = get_dest_file(label)]
  /\ pc' = [pc EXCEPT ![w] = "log_acquire"]
  /\ outcome' = [outcome EXCEPT ![w] = "ok"]
  /\ UNCHANGED <<disk, input, observed, control, mainLocals, existing, current, locks,
                 calls, writes, start, prev>>

\* the oracle answers; result, category, q_data['id'], dest_file
ImpOracleOk(w, label, hex) ==
  /\ running /\ script = "import"
  /\ pc[w] = "oracle"
  /\ q_data' = [q_data EXCEPT ![w] =
                  [id |-> [ns |-> "imp", cat |-> <<>>, hex |-> hex], q |-> source[w].id]]
  /\ dest' = [dest EXCEPT ![w] = get_dest_file(label)]
  /\ pc' = [pc EXCEPT ![w] = "lock_store"]
  /\ outcome' = [outcome EXCEPT ![w] = "ok"]
  /\ UNCHANGED <<disk, input, observed, control, mainLocals, existing, current, locks,
                 calls, writes, start, prev>>

\* a failed request that is marked processed all the same
ImpOracleFailMarked(w) ==
  /\ running /\ script = "import"
  /\ pc[w] = "oracle"
  /\ pc' = [pc EXCEPT ![w] = "log_acquire"]
  /\ outcome' = [outcome EXCEPT ![w] = "failed"]
  /\ printed' = printed \cup {Line("failed", source[w].id, "oracle", <<>>)}
  /\ UNCHANGED <<disk, input, appended, total_removed, control, mainLocals, taskLocals,
                 locks, calls, writes, start, prev>>

\* the request or the parsing of its answer raises: except ...: return False
ImpOracleFail(w) ==
  /\ running /\ script = "import"
  /\ pc[w] = "oracle"
  /\ pc' = [pc EXCEPT ![w] = "done"]
  /\ outcome' = [outcome EXCEPT ![w] = "failed"]
  /\ printed' = printed \cup {Line("failed", source[w].id, "oracle", <<>>)}
  /\ UNCHANGED <<disk, input, appended, total_removed, control, mainLocals, taskLocals,
                 locks, calls, writes, start, prev>>

(***************************************************************************)
(* import_new_questions_csv.py: safe_append_yaml(filename, question_obj)   *)
(***************************************************************************)
\* file_locks[filename]: the lock object the with statement will enter
StoreLookupLock(w) ==
  /\ pc[w] = "lock_store"
  /\ file_locks' = file_locks_getitem(file_locks, dest[w])
  /\ lk' = [lk EXCEPT ![w] = file_locks_getitem(file_locks, dest[w])[dest[w]]]
  /\ pc' = [pc EXCEPT ![w] = "acquire_store"]
  /\ UNCHANGED <<disk, input, observed, control, mainLocals, taskLocals, held, history>>

\* with file_locks[filename]: (enter)
StoreAcquire(w) ==
  /\ pc[w] = "acquire_store"
  /\ LockFree(lk[w])
  /\ held' = held \cup {<<lk[w], w>>}
  /\ pc' = [pc EXCEPT ![w] = "read_store"]
  /\ UNCHANGED <<disk, input, observed, control, mainLocals, taskLocals, file_locks, lk, history>>

\* existing_data = yaml.safe_load(f) or []; existing_data.append(question_obj)
StoreRead(w) ==
  /\ pc[w] = "read_store"
  /\ existing' = [existing EXCEPT ![w] = Append(read_existing(store[dest[w]]), q_data[w])]
  /\ pc' = [pc EXCEPT ![w] = "open_store"]
  /\ UNCHANGED <<disk, input, observed, control, mainLocals, dest, q_data, current, locks, history>>

\* open(full_path, 'w') truncates the file
StoreOpen(w) ==
  /\ pc[w] = "open_store"
  /\ store' = [store EXCEPT ![dest[w]] = EmptyList]
  /\ writes' = writes + 1
  /\ pc' = [pc EXCEPT ![w] = "dump_store"]
  /\ UNCHANGED <<importLog, migrationLog, input, observed, control, mainLocals, taskLocals, locks,
                 calls, outcome, start, prev>>

\* yaml.dump(existing_data, f, ...) and the close of the file
StoreDump(w) ==
  /\ pc[w] = "dump_store"
  /\ store' = [store EXCEPT ![dest[w]] = DocList(existing[w])]
  /\ appended' = [appended EXCEPT ![dest[w]] = @ \cup {q_data[w]}]
  /\ existing' = [existing EXCEPT ![w] = <<>>]
  /\ pc' = [pc EXCEPT ![w] = "release_store"]
  /\ UNCHANGED <<importLog, migrationLog, input, printed, total_removed, control,
                 mainLocals, dest, q_data, current, locks, history>>

\* with file_locks[filename]: (exit); process_data goes on to append_to_log
StoreRelease(w) ==
  /\ pc[w] = "release_store"
  /\ held' = held \ {<<lk[w], w>>}
  /\ lk' = [lk EXCEPT ![w] = 0]
  /\ pc' = [pc EXCEPT ![w] = "log_acquire"]
  /\ UNCHANGED <<disk, input, observed, control, mainLocals, taskLocals, file_locks, history>>

ImportNext ==
  \/ ImpLoadLog
  \/ ImpScanSkip
  \/ ImpScanPoison
  \/ ImpScanKeep
  \/ ImpSubmit
  \/ ImpDone
  \/ \E w \in Rows, label \in labels, hex \in HexChoices : ImpOracleOk(w, label, hex)
  \/ \E w \in Rows : ImpOracleFail(w)
  \/ \E w \in Rows : StoreLookupLock(w)
  \/ \E w \in Rows : StoreAcquire(w)
  \/ \E w \in Rows : StoreRead(w)
  \/ \E w \in Rows : StoreOpen(w)
  \/ \E w \in Rows : StoreDump(w)
  \/ \E w \in Rows : StoreRelease(w)
  \/ \E t \in Threads : LogAcquire(t)
  \/ \E t \in Threads : LogRead(t)
  \/ \E t \in Threads : LogOpen(t)
  \/ \E t \in Threads : LogDump(t)
  \/ \E t \in Threads : LogRelease(t)

(***************************************************************************)
(* migrate.py: main                                                        *)
(***************************************************************************)
\* load_log() of migrate.py, for a log that is absent or a document
mig_load_log(file) == IF file.st = "doc" THEN file.v ELSE {}

\* [q for q in source_data if str(q.get('number')) not in processed_ids]
to_process(ids) ==
  LET Keep(r) == source[r].id \notin ids
  IN  SelectSeq([r \in SourceRows |-> r], Keep)

\* the rows of the batch to_process[i : i+BATCH_SIZE]
Batch ==
  {rows_to_process[i] : i \in {j \in DOMAIN rows_to_process : j >= idx /\ j < idx + BATCH_SIZE}}

\* an accumulation that counts a result under its file name only once
AddResultOnce(results, fname, data) ==
  IF \E i \in DOMAIN results : results[i].fname = fname
    THEN results
    ELSE Append(results, [fname |-> fname, items |-> <<data>>])

\* current_batch_results[fname].append(data), the key made on first use
AddResult(results, fname, data) ==
  IF \E i \in DOMAIN results : results[i].fname = fname
    THEN [i \in DOMAIN results |->
            IF results[i].fname = fname
              THEN [results[i] EXCEPT !.items = Append(@, data)]
              ELSE results[i]]
    ELSE Append(results, [fname |-> fname, items |-> <<data>>])

\* source_data, processed_ids = load_log(), to_process
MigLoadLog ==
  /\ running /\ script = "migrate"
  /\ pc[Main] = "load_log"
  /\ migrationLog.st \in {"absent", "doc"}
  /\ processed' = mig_load_log(migrationLog)
  /\ rows_to_process' = to_process(mig_load_log(migrationLog))
  /\ outcome' = [r \in Rows |->
                   IF r \in SourceRows /\ source[r].id \in mig_load_log(migrationLog)
                     THEN "skipped" ELSE "none"]
  /\ idx' = 1
  /\ pc' = [pc EXCEPT ![Main] = "m_submit"]
  /\ printed' = printed \cup
       {Line("remaining", 0, "", <<Len(to_process(mig_load_log(migrationLog)))>>)}
  /\ UNCHANGED <<disk, input, appended, total_removed, control, batch_results, taskLocals,
                 locks, calls, writes, start, prev>>

\* futures = {executor.submit(process_question, q): q for q in batch}
MigSubmit ==
  /\ running /\ script = "migrate"
  /\ pc[Main] = "m_submit"
  /\ idx <= Len(rows_to_process)
  /\ pc' = [t \in Threads |->
              IF t = Main THEN "m_collect"
              ELSE IF t \in Batch THEN "queued" ELSE pc[t]]
  /\ UNCHANGED <<disk, input, observed, control, mainLocals, taskLocals, locks, history>>

\* a collection that marks every collected row processed, also on None
MigCollectMarksAll(w) ==
  /\ running /\ script = "migrate"
  /\ pc[Main] = "m_collect"
  /\ pc[w] = "returned"
  /\ IF q_data[w] # NoRec
       THEN batch_results' = AddResult(batch_results, dest[w], q_data[w])
       ELSE UNCHANGED batch_results
  /\ processed' = processed \cup {source[w].id}
  /\ dest' = [dest EXCEPT ![w] = ""]
  /\ q_data' = [q_data EXCEPT ![w] = NoRec]
  /\ pc' = [pc EXCEPT ![w] = "collected"]
  /\ UNCHANGED <<disk, input, observed, control, idx, rows_to_process, existing, current, locks,
                 history>>

\* for future in as_completed(futures): res = future.result(); if res: ...
MigCollect(w) ==
  /\ running /\ script = "migrate"
  /\ pc[Main] = "m_collect"
  /\ pc[w] = "returned"
  /\ IF q_data[w] # NoRec
       THEN /\ batch_results' = AddResult(batch_results, dest[w], q_data[w])
            /\ processed' = processed \cup {source[w].id}
       ELSE UNCHANGED <<batch_results, processed>>
  /\ dest' = [dest EXCEPT ![w] = ""]
  /\ q_data' = [q_data EXCEPT ![w] = NoRec]
  /\ pc' = [pc EXCEPT ![w] = "collected"]
  /\ UNCHANGED <<disk, input, observed, control, idx, rows_to_process, existing, current, locks,
                 history>>

\* a main thread that starts to save when the first result has been collected
MigBatchDrainedEarly ==
  /\ running /\ script = "migrate"
  /\ pc[Main] = "m_collect"
  /\ \E w \in Batch : pc[w] = "collected"
  /\ pc' = [pc EXCEPT ![Main] = "m_save"]
  /\ UNCHANGED <<disk, input, observed, control, mainLocals, taskLocals, locks, history>>

\* as_completed is exhausted: print("  Saving batch...")
MigBatchDrained ==
  /\ running /\ script = "migrate"
  /\ pc[Main] = "m_collect"
  /\ \A w \in Batch : pc[w] = "collected"
  /\ pc' = [pc EXCEPT ![Main] = "m_save"]
  /\ UNCHANGED <<disk, input, observed, control, mainLocals, taskLocals, locks, history>>

\* for fname, new_questions in current_batch_results.items():
\*   existing = yaml.safe_load(f) or []; existing.extend(new_questions)
\* (the entries still to be saved are the ones left in batch_results)
MigStoreRead ==
  /\ running /\ script = "migrate"
  /\ pc[Main] = "m_save"
  /\ batch_results # <<>>
  /\ store[Head(batch_results).fname].st # "garbled"
  /\ existing' = [existing EXCEPT ![Main] =
                    read_existing(store[Head(batch_results).fname]) \o Head(batch_results).items]
  /\ pc' = [pc EXCEPT ![Main] = "m_open"]
  /\ UNCHANGED <<disk, input, observed, control, mainLocals, dest, q_data, current, locks, history>>

\* open(fpath, 'w') truncates the file
MigStoreOpen ==
  /\ running /\ script = "migrate"
  /\ pc[Main] = "m_open"
  /\ store' = [store EXCEPT ![Head(batch_results).fname] = EmptyList]
  /\ writes' = writes + 1
  /\ pc' = [pc EXCEPT ![Main] = "m_dump"]
  /\ UNCHANGED <<importLog, migrationLog, input, observed, control, mainLocals, taskLocals, locks,
                 calls, outcome, start, prev>>

\* yaml.dump(existing, f, ...) and the close of the file; next fname
MigStoreDump ==
  /\ running /\ script = "migrate"
  /\ pc[Main] = "m_dump"
  /\ store' = [store EXCEPT ![Head(batch_results).fname] = DocList(existing[Main])]
  /\ existing' = [existing EXCEPT ![Main] = <<>>]
  /\ batch_results' = Tail(batch_results)
  /\ pc' = [pc EXCEPT ![Main] = "m_save"]
  /\ UNCHANGED <<importLog, migrationLog, input, observed, control, processed, idx, rows_to_process,
                 dest, q_data, current, locks, history>>

\* current_batch_results = {}; save_log(processed_ids): open(MIGRATION_LOG, 'w')
MigLogOpen ==
  /\ running /\ script = "migrate"
  /\ pc[Main] = "m_save"
  /\ batch_results = <<>>
  /\ migrationLog' = EmptySet
  /\ pc' = [pc EXCEPT ![Main] = "m_log_dump"]
  /\ UNCHANGED <<store, importLog, input, observed, control, mainLocals, taskLocals, locks, history>>

\* json.dump(list(processed_ids), f) and the close; time.sleep(1); next batch
MigLogDump ==
  /\ running /\ script = "migrate"
  /\ pc[Main] = "m_log_dump"
  /\ migrationLog' = DocSet(processed)
  /\ idx' = idx + BATCH_SIZE
  /\ pc' = [pc EXCEPT ![Main] = "m_submit"]
  /\ UNCHANGED <<store, importLog, input, observed, control, processed, rows_to_process,
                 batch_results, taskLocals, locks, history>>

\* the batch loop is over, the pool is shut down, print("Migration complete!")
MigDone ==
  /\ running /\ script = "migrate"
  /\ pc[Main] = "m_submit"
  /\ idx > Len(rows_to_process)
  /\ ProcessExit
  /\ printed' = printed \cup {Line("complete", 0, "", <<>>)}
  /\ UNCHANGED <<disk, history, appended, total_removed>>

(***************************************************************************)
(* migrate.py: process_question(raw_q)                                     *)
(***************************************************************************)
\* the oracle answers: return (target_file, data)
MigOracleOk(w, label, hex) ==
  /\ running /\ script = "migrate"
  /\ pc[w] = "oracle"
  /\ q_data' = [q_data EXCEPT ![w] =
                  [id |-> [ns |-> "med", cat |-> Prefix(category_name(label), 3), hex |-> hex],
                   q |-> source[w].id]]
  /\ dest' = [dest EXCEPT ![w] = target_file(label)]
  /\ pc' = [pc EXCEPT ![w] = "returned"]
  /\ outcome' = [outcome EXCEPT ![w] = "ok"]
  /\ UNCHANGED <<disk, input, observed, control, mainLocals, existing, current, locks,
                 calls, writes, start, prev>>

\* a process_question that sends the request again when it fails
MigOracleFailRetries(w) ==
  /\ running /\ script = "migrate"
  /\ pc[w] = "oracle"
  /\ calls' = calls + 1
  /\ UNCHANGED <<disk, input, observed, control, pc, mainLocals, taskLocals, locks,
                 writes, outcome, start, prev>>

\* the request or the parsing of its answer raises: except ...: return None
MigOracleFail(w) ==
  /\ running /\ script = "migrate"
  /\ pc[w] = "oracle"
  /\ pc' = [pc EXCEPT ![w] = "returned"]
  /\ outcome' = [outcome EXCEPT ![w] = "failed"]
  /\ printed' = printed \cup {Line("failed", source[w].id, "oracle", <<>>)}
  /\ UNCHANGED <<disk, input, appended, total_removed, control, mainLocals, taskLocals,
                 locks, calls, writes, start, prev>>

MigrateNext ==
  \/ MigLoadLog
  \/ MigSubmit
  \/ \E w \in Rows : MigCollect(w)
  \/ MigBatchDrained
  \/ MigStoreRead
  \/ MigStoreOpen
  \/ MigStoreDump
  \/ MigLogOpen
  \/ MigLogDump
  \/ MigDone
  \/ \E w \in Rows, label \in labels, hex \in HexChoices : MigOracleOk(w, label, hex)
  \/ \E w \in Rows : MigOracleFail(w)

Next ==
  \/ \E s \in {"import", "migrate"} : StartRun(s)
  \/ \E w \in Rows : StartTask(w)
  \/ ImportNext
  \/ MigrateNext

Spec == Init /\ [][Next]_vars

(***************************************************************************)
(* Crashes: the process is killed at any point.  A file that was open for  *)
(* writing is left empty or with a part of its document.  migrate.py has   *)
(* no handler around load_log and the store read, so an unreadable file    *)
(* ends its run with the exception.                                        *)
(***************************************************************************)
\* what a kill can leave of a file (the history of a killed run is dropped)
Leftover(file, leftover) == IF file.st = "empty" THEN [file EXCEPT !.st = leftover] ELSE file

Crash(leftover) ==
  /\ running
  /\ store' = [f \in Files |-> Leftover(store[f], leftover)]
  /\ importLog' = Leftover(importLog, leftover)
  /\ migrationLog' = Leftover(migrationLog, leftover)
  /\ ProcessExit
  /\ calls' = 0
  /\ writes' = 0
  /\ outcome' = NoOutcome
  /\ printed' = {}
  /\ UNCHANGED <<start, prev, appended, total_removed>>

\* json.load(f) raises in load_log() of migrate.py
MigLoadLogRaises ==
  /\ running /\ script = "migrate"
  /\ pc[Main] = "load_log"
  /\ migrationLog.st \notin {"absent", "doc"}
  /\ ProcessExit
  /\ UNCHANGED <<disk, history, observed>>

\* yaml.safe_load(f) raises in the save loop of migrate.main
MigStoreReadRaises ==
  /\ running /\ script = "migrate"
  /\ pc[Main] = "m_save"
  /\ batch_results # <<>>
  /\ store[Head(batch_results).fname].st = "garbled"
  /\ ProcessExit
  /\ UNCHANGED <<disk, history, observed>>

NextCrash ==
  \/ Next
  \/ \E leftover \in {"empty", "garbled"} : Crash(leftover)
  \/ MigLoadLogRaises
  \/ MigStoreReadRaises

\* the crash runs are explored for a source one row shorter and an oracle
\* that answers with one label
InitCrash ==
  /\ Fresh
  /\ topic = "neurologi.yaml"
  /\ subject = "medical_exam"
  /\ source \in Sources(NumRows - 1)
  /\ labels = {CategoryEnum[1]}

SpecCrash == InitCrash /\ [][NextCrash]_vars

(***************************************************************************)
(* I/O errors: open(..., 'w') or the dump raises OSError.  A failed open    *)
(* leaves the file as it was, a failed dump leaves it empty or with a part *)
(* of its document.  In process_data the exception leaves the with block,  *)
(* which releases the lock, and reaches "except Exception: return False".  *)
(* In the main threads nothing catches it and the script ends.             *)
(***************************************************************************)
\* a safe_append_yaml that swallows the error of its open(full_path, 'w')
StoreOpenSwallows(w) ==
  /\ pc[w] = "open_store"
  /\ held' = held \ {<<lk[w], w>>}
  /\ lk' = [lk EXCEPT ![w] = 0]
  /\ existing' = [existing EXCEPT ![w] = <<>>]
  /\ outcome' = [outcome EXCEPT ![w] = "store_failed"]
  /\ pc' = [pc EXCEPT ![w] = "log_acquire"]
  /\ UNCHANGED <<disk, input, observed, control, mainLocals, dest, q_data, current, file_locks,
                 calls, writes, start, prev>>

\* open(full_path, 'w') raises in safe_append_yaml
StoreOpenRaises(w) ==
  /\ pc[w] = "open_store"
  /\ held' = held \ {<<lk[w], w>>}
  /\ lk' = [lk EXCEPT ![w] = 0]
  /\ existing' = [existing EXCEPT ![w] = <<>>]
  /\ outcome' = [outcome EXCEPT ![w] = "store_failed"]
  /\ pc' = [pc EXCEPT ![w] = "done"]
  /\ printed' = printed \cup {Line("failed", source[w].id, "store", <<>>)}
  /\ UNCHANGED <<disk, input, appended, total_removed, control, mainLocals, dest, q_data,
                 current, file_locks, calls, writes, start, prev>>

\* a safe_append_yaml whose lock stays held when yaml.dump raises
StoreDumpRaisesKeepsLock(w, leftover) ==
  /\ pc[w] = "dump_store"
  /\ store' = [store EXCEPT ![dest[w]] = Leftover(@, leftover)]
  /\ existing' = [existing EXCEPT ![w] = <<>>]
  /\ outcome' = [outcome EXCEPT ![w] = "store_failed"]
  /\ pc' = [pc EXCEPT ![w] = "done"]
  /\ printed' = printed \cup {Line("failed", source[w].id, "store", <<>>)}
  /\ UNCHANGED <<importLog, migrationLog, input, appended, total_removed, control,
                 mainLocals, dest, q_data, current, locks, calls, writes, start, prev>>

\* yaml.dump raises in safe_append_yaml
StoreDumpRaises(w, leftover) ==
  /\ pc[w] = "dump_store"
  /\ store' = [store EXCEPT ![dest[w]] = Leftover(@, leftover)]
  /\ held' = held \ {<<lk[w], w>>}
  /\ lk' = [lk EXCEPT ![w] = 0]
  /\ existing' = [existing EXCEPT ![w] = <<>>]
  /\ outcome' = [outcome EXCEPT ![w] = "store_failed"]
  /\ pc' = [pc EXCEPT ![w] = "done"]
  /\ printed' = printed \cup {Line("failed", source[w].id, "store", <<>>)}
  /\ UNCHANGED <<importLog, migrationLog, input, appended, total_removed, control,
                 mainLocals, dest, q_data, current, file_locks, calls, writes, start, prev>>

\* what the caller of append_to_log does with the exception: a task returns
\* False, the main thread dies with it and the script ends
LogRaises(t) ==
  IF t = Main
    THEN /\ ProcessExit
         /\ outcome' = [outcome EXCEPT ![idx] = "log_failed"]
         /\ UNCHANGED <<calls, writes, start, prev, observed>>
    ELSE /\ held' = held \ {<<log_lock, t>>}
         /\ current' = [current EXCEPT ![t] = {}]
         /\ outcome' = [outcome EXCEPT ![t] = "log_failed"]
         /\ pc' = [pc EXCEPT ![t] = "done"]
         /\ printed' = printed \cup {Line("failed", source[t].id, "log", <<>>)}
         /\ UNCHANGED <<input, appended, total_removed, control, mainLocals, dest, q_data,
                        existing, file_locks, lk, calls, writes, start, prev>>

\* open(IMPORT_LOG, 'w') raises in append_to_log
LogOpenRaises(t) ==
  /\ pc[t] = "log_open"
  /\ LogRaises(t)
  /\ UNCHANGED disk

\* json.dump raises in append_to_log
LogDumpRaises(t, leftover) ==
  /\ pc[t] = "log_dump"
  /\ importLog' = Leftover(importLog, leftover)
  /\ LogRaises(t)
  /\ UNCHANGED <<store, migrationLog>>

\* the exception leaves migrate.main: the rows of the batch that were enriched
\* are the ones the failed flush was saving
MigFlushRaises ==
  /\ ProcessExit
  /\ outcome' = [r \in Rows |->
                   IF r \in Batch /\ outcome[r] = "ok" THEN "flush_failed" ELSE outcome[r]]
  /\ UNCHANGED <<calls, writes, start, prev, observed>>

\* open(fpath, 'w') raises in the save loop of migrate.main
MigStoreOpenRaises ==
  /\ running /\ script = "migrate"
  /\ pc[Main] = "m_open"
  /\ MigFlushRaises
  /\ UNCHANGED disk

\* yaml.dump raises in the save loop of migrate.main
MigStoreDumpRaises(leftover) ==
  /\ running /\ script = "migrate"
  /\ pc[Main] = "m_dump"
  /\ store' = [store EXCEPT ![Head(batch_results).fname] = Leftover(@, leftover)]
  /\ MigFlushRaises
  /\ UNCHANGED <<importLog, migrationLog>>

\* open(MIGRATION_LOG, 'w') raises in save_log
MigLogOpenRaises ==
  /\ running /\ script = "migrate"
  /\ pc[Main] = "m_save"
  /\ batch_results = <<>>
  /\ MigFlushRaises
  /\ UNCHANGED disk

\* json.dump raises in save_log
MigLogDumpRaises(leftover) ==
  /\ running /\ script = "migrate"
  /\ pc[Main] = "m_log_dump"
  /\ migrationLog' = Leftover(migrationLog, leftover)
  /\ MigFlushRaises
  /\ UNCHANGED <<store, importLog>>

NextIO ==
  \/ Next
  \/ \E w \in Rows : StoreOpenRaises(w)
  \/ \E w \in Rows, leftover \in {"empty", "garbled"} : StoreDumpRaises(w, leftover)
  \/ \E t \in Threads : LogOpenRaises(t)
  \/ \E t \in Threads, leftover \in {"empty", "garbled"} : LogDumpRaises(t, leftover)
  \/ MigStoreOpenRaises
  \/ \E leftover \in {"empty", "garbled"} : MigStoreDumpRaises(leftover)
  \/ MigLogOpenRaises
  \/ \E leftover \in {"empty", "garbled"} : MigLogDumpRaises(leftover)
  \/ MigLoadLogRaises
  \/ MigStoreReadRaises

\* the runs with I/O errors are explored from the same states as the crash runs
SpecIO == InitCrash /\ [][NextIO]_vars

(***************************************************************************)
(* The import under fair scheduling.  The threads of the process are       *)
(* scheduled by the operating system and the interpreter, which let every  *)
(* thread that can take a step take one; a request to the oracle returns   *)
(* or raises; a thread that waits for a lock takes no step.  The operator  *)
(* is not bound to start a run.                                            *)
(***************************************************************************)
\* the steps of the threads of import_new_questions_csv.py, raising writes
\* included
ImportSteps ==
  \/ \E w \in Rows : StartTask(w)
  \/ ImportNext
  \/ \E w \in Rows : StoreOpenRaises(w)
  \/ \E w \in Rows, leftover \in {"empty", "garbled"} : StoreDumpRaises(w, leftover)
  \/ \E t \in Threads : LogOpenRaises(t)
  \/ \E t \in Threads, leftover \in {"empty", "garbled"} : LogDumpRaises(t, leftover)

NextFair ==
  \/ StartRun("import")
  \/ ImportSteps

SpecFair == InitCrash /\ [][NextFair]_vars /\ WF_vars(ImportSteps)

(***************************************************************************)
(* Routing: the pipelines run over one row with an oracle that answers     *)
(* with one label, drawn from the labels of the enumeration, the keys of   *)
(* the table as they are written, and labels that contain one key, several *)
(* keys or none                                                            *)
(***************************************************************************)
OtherLabels ==
  {<<"N","E","U","R","O","L","O","G","I">>,
   <<"N","e","u","r","o","k","i","r","u","r","g","i">>,
   <<"B","a","r","n","k","i","r","u","r","g","i">>,
   <<"A","k","u","t"," ","K","a","r","d","i","o","l","o","g","i">>,
   <<"K","a","r","d","i","o","l","o","g","i"," ","o","c","h"," ","N","e","u","r","o","l","o","g","i">>,
   <<"I","n","t","e","r","n","m","e","d","i","c","i","n","-","K","a","r","d","i","o","l","o","g","i">>,
   <<"D","e","r","m","a","t","o","l","o","g","i">>,
   <<"Ouml","v","r","i","g","t">>,
   <<"O","r","o","n","-","N","a","s","a","-","H","a","l","s">>,
   <<"Ouml","r","o","n","-","N","auml","s","a","-","H","a","l","s","-","s","j","u","k","d","o","m","a","r">>,
   <<"H","u","d">>}

RouteLabels ==
  Range(CategoryEnum) \cup {CATEGORY_FILES[i].key : i \in DOMAIN CATEGORY_FILES}
    \cup OtherLabels \cup {<<>>}

InitRoute ==
  /\ Fresh
  /\ topic = "neurologi.yaml"
  /\ subject = "medical_exam"
  /\ source \in Sources(1)
  /\ \E label \in RouteLabels : labels = {label}

SpecRoute == InitRoute /\ [][Next]_vars

(***************************************************************************)
(* Sources with a repeated id: the CSV (or the source YAML) has two rows   *)
(* with the same id, the first of which may ask for an image.              *)
(***************************************************************************)
DupSources ==
  {[r \in 1..2 |-> [id |-> 1, poison |-> (r \in P)]] : P \in {{}, {1}}}

InitDup ==
  /\ Fresh
  /\ topic = "neurologi.yaml"
  /\ subject = "medical_exam"
  /\ source \in DupSources
  /\ labels = {CategoryEnum[1]}

SpecDup == InitDup /\ [][Next]_vars

(***************************************************************************)
(* generate.py: main, for a topic of a subject (mode 1 when the subject is *)
(* korkortsteori).  The operator selects the subject and the topic file;   *)
(* the oracle answers with a batch of questions that carry the ids the     *)
(* oracle wrote.                                                           *)
(***************************************************************************)
\* the characters of an id prefix
PrefixText(p) ==
  IF p = "med" THEN <<"m", "e", "d">>
  ELSE IF p = "kor" THEN <<"k", "o", "r">>
  ELSE IF p = "imp" THEN <<"i", "m", "p">>
  ELSE <<"q">>

\* the text of an id, f"{ns}-{cat}-{hex}"
IdText(id) ==
  PrefixText(id.ns) \o <<"-">> \o id.cat \o <<"-", ToString(id.hex)>>

\* id_prefix = id_prefix_map.get(subject, subject[:3].lower())
id_prefix == IF subject = "korkortsteori" THEN "kor" ELSE "med"

\* the ids the oracle can write: in the format the prompt asks for, or not
OracleIds ==
  {[ns |-> id_prefix, cat |-> <<"g", "e", "n">>, hex |-> h] : h \in 1..2}
    \cup {[ns |-> "q", cat |-> <<>>, hex |-> 1]}

\* the batches of questions the oracle can answer with
OracleBatches == {<<a>> : a \in OracleIds} \cup {<<a, b>> : a, b \in OracleIds}

\* for q in new_data: if 'med-gen' not in q['id']: q['id'] = f"med-gen-{hex}"
ensure_ids(batch, hexes) ==
  [i \in DOMAIN batch |->
     [id |-> IF Contains(<<"m", "e", "d", "-", "g", "e", "n">>, IdText(batch[i]))
               THEN batch[i]
               ELSE [ns |-> "med", cat |-> <<"g", "e", "n">>, hex |-> hexes[i]],
      q |-> 0]]

\* the values of the uuid4().hex[:6] of one batch: in use, or one of two new ones
GenHexChoices == HexChoices \cup {1 + Max(HexChoices)}

\* existing = load_existing(filepath)
GenLoadExisting ==
  /\ running /\ script = "generate"
  /\ pc[Main] = "load_log"
  /\ existing' = [existing EXCEPT ![Main] = read_existing(store[topic])]
  /\ pc' = [pc EXCEPT ![Main] = "g_oracle"]
  /\ UNCHANGED <<disk, input, observed, control, mainLocals, dest, q_data, current, locks, history>>

\* the oracle answers with a batch; the ids are looked over;
\* all_data = existing + new_data
GenOracleOk(batch, hexes) ==
  /\ running /\ script = "generate"
  /\ pc[Main] = "g_oracle"
  /\ existing' = [existing EXCEPT ![Main] = @ \o ensure_ids(batch, hexes)]
  /\ calls' = calls + 1
  /\ pc' = [pc EXCEPT ![Main] = "g_open"]
  /\ UNCHANGED <<disk, input, observed, control, mainLocals, dest, q_data, current, locks,
                 writes, outcome, start, prev>>

\* the request raises or the batch has no question: nothing is written
GenOracleFail ==
  /\ running /\ script = "generate"
  /\ pc[Main] = "g_oracle"
  /\ ProcessExit
  /\ calls' = calls + 1
  /\ UNCHANGED <<disk, writes, outcome, start, prev, observed>>

\* open(filepath, 'w') truncates the file
GenOpen ==
  /\ running /\ script = "generate"
  /\ pc[Main] = "g_open"
  /\ store' = [store EXCEPT ![topic] = EmptyList]
  /\ writes' = writes + 1
  /\ pc' = [pc EXCEPT ![Main] = "g_dump"]
  /\ UNCHANGED <<importLog, migrationLog, input, observed, control, mainLocals, taskLocals, locks,
                 calls, outcome, start, prev>>

\* yaml.dump(all_data, f, ...), print("Saved to ..."), and main returns
GenDump ==
  /\ running /\ script = "generate"
  /\ pc[Main] = "g_dump"
  /\ store' = [store EXCEPT ![topic] = DocList(existing[Main])]
  /\ ProcessExit
  /\ UNCHANGED <<importLog, migrationLog, history, observed>>

GenerateNext ==
  \/ GenLoadExisting
  \/ \E batch \in OracleBatches, hexes \in [1..2 -> GenHexChoices] : GenOracleOk(batch, hexes)
  \/ GenOracleFail
  \/ GenOpen
  \/ GenDump

NextGen ==
  \/ StartRun("generate")
  \/ GenerateNext

\* topics = get_topics(subject)
get_topics(s) ==
  IF s = "korkortsteori" THEN KorFiles ELSE {"neurologi.yaml", "kardiologi.yaml"}

\* the operator generates questions for a topic of one of the two subjects
InitGen ==
  /\ Fresh
  /\ source = <<>>
  /\ labels = {}
  /\ subject \in {"medical_exam", "korkortsteori"}
  /\ topic \in get_topics(subject)

SpecGen == InitGen /\ [][NextGen]_vars

(***************************************************************************)
(* cleanup_previous_import.py and cleanup_imports.py: the reset of an      *)
(* import.  Both visit the *.yaml files of DATA_DIR in the order the       *)
(* directory listing gives them, rewrite the lists that hold records       *)
(* whose id starts with 'imp-', and then reset the import log.  One loop   *)
(* iteration is one step: the scripts have a single thread.                *)
(***************************************************************************)
\* str(q.get('id', '')).startswith('imp-')
startswith_imp(q) == Prefix(IdText(q.id), 4) = <<"i", "m", "p", "-">>

\* a filter that keeps nothing
new_data_nothing(data) == <<>>

\* new_data = [q for q in data if not str(q.get('id', '')).startswith('imp-')]
new_data(data) == SelectSeq(data, LAMBDA q : ~startswith_imp(q))

\* clean_data = [q for q in data if not (isinstance(q, dict) and
\*               q.get('id', '').startswith('imp-'))]
clean_data(data) == SelectSeq(data, LAMBDA q : ~startswith_imp(q))

\* os.listdir(DATA_DIR), glob.glob(DATA_DIR/*.yaml): the store files under
\* DATA_DIR that exist, in any order
Listings ==
  LET there == {f \in DestFiles : store[f].st # "absent"}
  IN  {l \in [1..Cardinality(there) -> there] : Range(l) = there}

\* for filename in os.listdir(DATA_DIR)
PrevList ==
  /\ running /\ script = "cleanup_previous_import"
  /\ pc[Main] = "load_log"
  /\ \E l \in Listings : rows_to_process' = l
  /\ idx' = 1
  /\ pc' = [pc EXCEPT ![Main] = "c_file"]
  /\ UNCHANGED <<disk, input, observed, control, processed, batch_results, taskLocals,
                 locks, history>>

\* one iteration: a broken file and a file that holds no list are passed
\* over; a list with 'imp-' records is rewritten without them
PrevFile ==
  /\ running /\ script = "cleanup_previous_import"
  /\ pc[Main] = "c_file" /\ idx \in DOMAIN rows_to_process
  /\ LET filename == rows_to_process[idx]
         data == store[filename]
         removed == Len(data.v) - Len(new_data(data.v))
     IN  IF data.st = "doc" /\ removed > 0
           THEN /\ total_removed' = total_removed + removed
                /\ writes' = writes + 1
                /\ store' = [store EXCEPT ![filename] = DocList(new_data(data.v))]
           ELSE UNCHANGED <<total_removed, writes, store>>
  /\ idx' = idx + 1
  /\ UNCHANGED <<importLog, migrationLog, input, printed, appended, control, pc, processed,
                 rows_to_process, batch_results, taskLocals, locks, calls, outcome,
                 start, prev>>

\* print("Total questions removed: ..."); the log, if it exists, is
\* rewritten as []; main returns
PrevResetLog ==
  /\ running /\ script = "cleanup_previous_import"
  /\ pc[Main] = "c_file" /\ idx \notin DOMAIN rows_to_process
  /\ printed' = printed \cup {Line("total", 0, "", <<total_removed>>)}
  /\ importLog' = IF importLog.st # "absent" THEN DocSet({}) ELSE importLog
  /\ ProcessExit
  /\ UNCHANGED <<store, migrationLog, history, appended, total_removed>>

\* yaml_files = glob.glob(os.path.join(DATA_DIR, '*.yaml'))
CiList ==
  /\ running /\ script = "cleanup_imports"
  /\ pc[Main] = "load_log"
  /\ \E l \in Listings : rows_to_process' = l
  /\ idx' = 1
  /\ pc' = [pc EXCEPT ![Main] = "c_file"]
  /\ UNCHANGED <<disk, input, observed, control, processed, batch_results, taskLocals,
                 locks, history>>

\* one iteration: a file that cannot be read, holds no list or an empty one
\* is passed over; a list with 'imp-' records is rewritten without them, and
\* then total_removed += total_removed + removed_count
CiFile ==
  /\ running /\ script = "cleanup_imports"
  /\ pc[Main] = "c_file" /\ idx \in DOMAIN rows_to_process
  /\ LET fpath == rows_to_process[idx]
         data == store[fpath]
         removed_count == Len(data.v) - Len(clean_data(data.v))
     IN  IF data.st = "doc" /\ data.v # <<>> /\ removed_count > 0
           THEN /\ store' = [store EXCEPT ![fpath] = DocList(clean_data(data.v))]
                /\ writes' = writes + 1
                /\ total_removed' = total_removed + (total_removed + removed_count)
           ELSE UNCHANGED <<total_removed, writes, store>>
  /\ idx' = idx + 1
  /\ UNCHANGED <<importLog, migrationLog, input, printed, appended, control, pc, processed,
                 rows_to_process, batch_results, taskLocals, locks, calls, outcome,
                 start, prev>>

\* the log file, if it exists, is removed;
\* print(f"Cleanup complete. Total removed: {total_removed}"); main returns
CiRemoveLog ==
  /\ running /\ script = "cleanup_imports"
  /\ pc[Main] = "c_file" /\ idx \notin DOMAIN rows_to_process
  /\ importLog' = AbsentSet
  /\ printed' = printed \cup {Line("total", 0, "", <<total_removed>>)}
  /\ ProcessExit
  /\ UNCHANGED <<store, migrationLog, history, appended, total_removed>>

CleanupNext ==
  \/ PrevList
  \/ PrevFile
  \/ PrevResetLog
  \/ CiList
  \/ CiFile
  \/ CiRemoveLog

NextCleanup ==
  \/ \E s \in {"cleanup_previous_import", "cleanup_imports"} : StartRun(s)
  \/ CleanupNext

\* the records an import and a migration have left in two stores
ImportedRecord(h) == [id |-> [ns |-> "imp", cat |-> <<>>, hex |-> h], q |-> h]

MigratedRecord(h) == [id |-> [ns |-> "med", cat |-> <<"n", "e", "u">>, hex |-> h], q |-> h]

\* the lists of distinct records of S
ListsOf(S) ==
  UNION {{l \in [1..n -> S] : \A i, j \in 1..n : i # j => l[i] # l[j]} :
           n \in 0..Cardinality(S)}

\* what a store file can be before a cleanup: absent, a list, or what a kill
\* left of it
StoreStates(S) ==
  {AbsentList, EmptyList, [st |-> "garbled", v |-> <<>>]} \cup {DocList(l) : l \in ListsOf(S)}

\* the stores and the log after imports and migrations, before a cleanup
InitCleanup ==
  /\ topic = "neurologi.yaml"
  /\ subject = "medical_exam"
  /\ source = <<>>
  /\ labels = {}
  /\ \E a \in StoreStates({ImportedRecord(1), MigratedRecord(3), MigratedRecord(4)}),
        b \in StoreStates({ImportedRecord(2), MigratedRecord(5)}) :
       store = [f \in Files |->
                  IF f = "neurologi.yaml" THEN a
                  ELSE IF f = "kardiologi.yaml" THEN b
                  ELSE AbsentList]
  /\ importLog \in {AbsentSet, DocSet({1, 2}), [st |-> "garbled", v |-> {}]}
  /\ migrationLog = DocSet({3, 4, 5})
  /\ Idle

SpecCleanup == InitCleanup /\ [][NextCleanup]_vars

(***************************************************************************)
(* Properties                                                              *)
(***************************************************************************)
\* task w is inside safe_append_yaml
InAppend(w) ==
  pc[w] \in {"lock_store", "acquire_store", "read_store", "open_store", "dump_store",
             "release_store"}

\* task w holds the lock of its store: the read-merge-write section
InSection(w) == pc[w] \in {"read_store", "open_store", "dump_store", "release_store"}

\* thread t is inside append_to_log
InLog(t) == pc[t] \in {"log_acquire", "log_read", "log_open", "log_dump", "log_release"}

\* task w has returned from safe_append_yaml
Appended(w) == script = "import" /\ (InLog(w) \/ (pc[w] = "done" /\ outcome[w] = "ok"))

\* the tasks whose safe_append_yaml(f, ...) has returned
Callers(f) == {w \in Rows : Appended(w) /\ dest[w] = f}

\* the positions of the records of a store that were put there in this run
NewPos(f) == {i \in DOMAIN Persisted(store[f]) : i > Len(Persisted(start.store[f]))}

\* C1: when no call of safe_append_yaml on a file is in progress, the file holds
\* the records it held when the run started, followed by exactly one record per
\* call that has returned: its length is the initial length plus the number of
\* calls, and every appended record is there once.
C1_NoLostAppend ==
  (running /\ script = "import") =>
    \A f \in Files :
      (\A w \in Rows : InAppend(w) => dest[w] # f) =>
        /\ Len(Persisted(store[f])) = Len(Persisted(start.store[f])) + Cardinality(Callers(f))
        /\ SubSeq(Persisted(store[f]), 1, Len(Persisted(start.store[f])))
             = Persisted(start.store[f])
        /\ \A w \in Callers(f) :
             Cardinality({i \in NewPos(f) : store[f].v[i] = q_data[w]}) = 1

\* two calls on one file, which held a record before, have returned
C1_Witness ==
  /\ running /\ script = "import"
  /\ \E f \in Files :
       /\ \A w \in Rows : InAppend(w) => dest[w] # f
       /\ Cardinality(Callers(f)) >= 2
       /\ Len(Persisted(start.store[f])) >= 1

\* C2: at most one task is in the read-merge-write section of one file name, and
\* the tasks that looked up the lock of one file name got the same lock object.
C2_OneWriterPerStore ==
  \A w, v \in Rows :
    /\ (w # v /\ InSection(w) /\ InSection(v)) => dest[w] # dest[v]
    /\ (pc[w] \in {"acquire_store"} \cup {"read_store", "open_store", "dump_store",
                                          "release_store"}
        /\ pc[v] \in {"acquire_store"} \cup {"read_store", "open_store", "dump_store",
                                            "release_store"}
        /\ dest[w] = dest[v]) => lk[w] = lk[v]

\* a task has truncated a store and not yet written it back while another
\* task waits for the lock of the same store
C2_Witness ==
  \E w, v \in Rows :
    /\ pc[w] = "dump_store"
    /\ pc[v] = "acquire_store"
    /\ dest[w] = dest[v]

\* C3: a task waiting for the lock of a store can take it whenever no task is
\* in the section of that store, whatever other stores' locks are held, and a
\* task in its section can always take its next step.
C3_StoresIndependent ==
  \A w \in Rows :
    /\ (pc[w] = "acquire_store" /\ \A v \in Rows : InSection(v) => dest[v] # dest[w])
         => ENABLED StoreAcquire(w)
    /\ InSection(w)
         => ENABLED (StoreRead(w) \/ StoreOpen(w) \/ StoreDump(w) \/ StoreRelease(w))

\* a task waits for the free lock of one store while another task is writing
\* a different store
C3_Witness ==
  \E w, v \in Rows :
    /\ pc[w] = "acquire_store"
    /\ pc[v] = "dump_store"
    /\ dest[v] # dest[w]
    /\ \A u \in Rows : InSection(u) => dest[u] # dest[w]

\* the ids whose append_to_log call has returned in this run: the rows main
\* marked as poison and the tasks that returned True
Marked ==
  {source[r].id :
     r \in {x \in Rows : outcome[x] = "poison" \/ (outcome[x] = "ok" /\ pc[x] = "done")}}

\* C4: when no call of append_to_log is in progress, the persisted log is the
\* log of the start of the run united with the ids of the calls that returned.
C4_NoLostLogEntry ==
  (running /\ script = "import" /\ \A t \in Threads : ~InLog(t)) =>
    /\ importLog.st \in {"absent", "doc"}
    /\ LogIds(importLog) = LogIds(start.importLog) \cup Marked

\* two tasks have returned from append_to_log after one of them waited for
\* log_lock; here all calls have returned
C4_Witness ==
  /\ running /\ script = "import"
  /\ \A t \in Threads : ~InLog(t)
  /\ Cardinality({r \in Rows : outcome[r] = "ok" /\ pc[r] = "done"}) >= 2

\* the resume log of the script that runs
Log == IF script = "migrate" THEN migrationLog ELSE importLog

\* a run has ended: the script returned from main
RunEnded == runs >= 1 /\ ~running

\* the rows of this run whose enrichment failed, and those whose succeeded
Failed == {r \in Rows : outcome[r] = "failed"}

Succeeded == {r \in Rows : outcome[r] = "ok"}

\* the prefix of the ids the running script makes
Namespace == IF script = "migrate" THEN "med" ELSE "imp"

\* the number of persisted records enriched from source id x by this script
Copies(st, x) ==
  LET Hit(f) == {i \in DOMAIN Persisted(st[f]) :
                   st[f].v[i].q = x /\ st[f].v[i].id.ns = Namespace}
      Sum[S \in SUBSET Files] ==
        IF S = {} THEN 0
        ELSE LET f == CHOOSE g \in S : TRUE
             IN  Cardinality(Hit(f)) + Sum[S \ {f}]
  IN  Sum[Files]

\* the number of records persisted in all the stores
Total(st) ==
  LET Sum[S \in SUBSET Files] ==
        IF S = {} THEN 0
        ELSE LET f == CHOOSE g \in S : TRUE
             IN  Len(Persisted(st[f])) + Sum[S \ {f}]
  IN  Sum[Files]

\* C5: when a run has ended, the id of no row whose enrichment failed is in the
\* persisted log, and the id of every other dispatched row is in it.
C5_PartitionTolerance ==
  RunEnded =>
    /\ \A r \in Failed : source[r].id \notin LogIds(Log)
    /\ \A r \in Succeeded : source[r].id \in LogIds(Log)

\* a run has ended in which one enrichment failed and another succeeded
C5_Witness == RunEnded /\ Failed # {} /\ Succeeded # {}

\* the log of the running script as it was when the run started
StartLog == IF script = "migrate" THEN start.migrationLog ELSE start.importLog

Ids(R) == {source[r].id : r \in R}

PoisonMarked == {r \in Rows : outcome[r] = "poison"}

\* C6 as stated: after a run the stores have grown by one record per succeeded
\* row, each in one store, and the log has gained exactly the ids of those rows.
C6_Original ==
  RunEnded =>
    /\ Total(store) = Total(start.store) + Cardinality(Succeeded)
    /\ \A r \in Succeeded : Copies(store, source[r].id) = Copies(start.store, source[r].id) + 1
    /\ LogIds(Log) \ LogIds(StartLog) = Ids(Succeeded)

\* C6 amended: after a run the stores have grown by one record per succeeded
\* row, each in one store, and the log has gained exactly the ids of those rows
\* and of the rows the poison short-circuit marked.
C6_RunTotals ==
  RunEnded =>
    /\ Total(store) = Total(start.store) + Cardinality(Succeeded)
    /\ \A r \in Succeeded : Copies(store, source[r].id) = Copies(start.store, source[r].id) + 1
    /\ LogIds(Log) \ LogIds(StartLog) = Ids(Succeeded) \cup Ids(PoisonMarked)

\* a run has ended with a success, a failure and a poison row
C6_Witness == RunEnded /\ Succeeded # {} /\ Failed # {} /\ PoisonMarked # {}

\* C7: after a run without failures every source id is in the log, and a run
\* that follows a run without failures dispatches nothing: it makes no oracle
\* call and writes no store.
C7_IdempotentReplay ==
  /\ (RunEnded /\ Failed = {}) => \A r \in SourceRows : source[r].id \in LogIds(Log)
  /\ (runs >= 2 /\ \A r \in Rows : prev.outcome[r] # "failed") =>
       /\ calls = 0
       /\ writes = 0
       /\ store = start.store
       /\ rows_to_process = <<>>

\* a second run has ended after a first run in which rows were enriched and
\* none failed
C7_Witness ==
  /\ runs = 2 /\ ~running
  /\ \A r \in Rows : prev.outcome[r] # "failed"
  /\ \E r \in Rows : prev.outcome[r] = "ok"
  /\ \A r \in SourceRows : outcome[r] = "skipped"

LogWriteInProgress == importLog.st = "empty" \/ migrationLog.st = "empty"

\* C9: whenever no write of the log is in progress, every id the persisted log
\* held when the run started is still in it (also after a crash).
C9_LogOnlyGrows ==
  (runs >= 1 /\ ~(running /\ LogWriteInProgress)) => LogIds(StartLog) \subseteq LogIds(Log)

\* a record enriched from the id of row r by this script is persisted
Stored(r) == Copies(store, source[r].id) >= 1

\* a task holds the only copy of the store of row r's record between its
\* open(..., 'w') and its dump
InRewrite(r) ==
  \E v \in Rows :
    /\ pc[v] = "dump_store"
    /\ \E i \in DOMAIN existing[v] :
         existing[v][i].q = source[r].id /\ existing[v][i].id.ns = Namespace

\* C10 as stated: when the record of an enriched row becomes durable, its id is
\* in the persisted log.
C10_Original ==
  [][\A r \in SourceRows :
       (~Stored(r) /\ Stored(r)' /\ outcome'[r] = "ok") => source[r].id \in LogIds(Log')]_vars

\* C10 amended: the log write comes after the store append: when the id of a
\* row enriched in this run enters the persisted log, its record has already
\* been appended to a store.
C10_StoreBeforeLog ==
  [][\A r \in SourceRows :
       (source[r].id \notin LogIds(Log) /\ source[r].id \in LogIds(Log') /\ outcome[r] = "ok")
         => (Stored(r) \/ InRewrite(r))]_vars

\* the id of an enriched row has just been written to the log, its record is
\* in a store
C10_Witness ==
  \E r \in SourceRows :
    /\ outcome[r] = "ok"
    /\ (pc[r] = "log_release" \/ (script = "migrate" /\ pc[Main] = "m_submit" /\ running))
    /\ source[r].id \in LogIds(Log)
    /\ Stored(r)

\* the rows whose record a failed write of a store or of the log affected
IOFailed == {r \in Rows : outcome[r] \in {"store_failed", "log_failed", "flush_failed"}}

\* C11: the id of a row whose store write or log write failed with an I/O error
\* is not in the persisted log: in import a failed safe_append_yaml or
\* append_to_log leaves the row unmarked, in migrate a failed flush leaves the
\* whole batch unmarked.
C11_FailedWriteNotMarked ==
  \A r \in IOFailed : source[r].id \notin LogIds(Log)

\* a run has ended in which the store write of one row failed while the id of
\* another row reached the log
C11_Witness ==
  /\ RunEnded
  /\ \E r \in Rows : outcome[r] \in {"store_failed", "flush_failed"}
  /\ LogIds(Log) # {}

\* the tasks whose store append has returned and whose id is not in the log
\* that a kill of the process would leave
AppendedUnlogged ==
  {w \in Rows : script = "import" /\ InLog(w) /\ source[w].id \notin LogIds(importLog')}

\* the records of all stores that were enriched from source id x by this script
CopiesOf(x) ==
  {<<f, i>> \in Files \X (1..(NumRows * MaxRuns)) :
     /\ i \in DOMAIN Persisted(store[f])
     /\ store[f].v[i].q = x
     /\ store[f].v[i].id.ns = Namespace}

\* C12: a row whose record is stored while its id is not in the log is not
\* skipped by the next run, the copies of a row have different ids, and when the
\* process ends, by a crash or not, the record of every task that had returned
\* from its store append is still in its store.
C12_CrashDuplicatesNeverLoses ==
  [][/\ \A r \in SourceRows :
          (running /\ outcome[r] = "skipped") => source[r].id \in LogIds(StartLog)
     /\ \A r \in SourceRows : \A a, b \in CopiesOf(source[r].id) :
          a # b => store[a[1]].v[a[2]].id # store[b[1]].v[b[2]].id
     /\ (running /\ ~running') =>
          \A w \in AppendedUnlogged : q_data[w] \in Range(Persisted(store'[dest[w]]))]_vars

\* the rows enriched in this run whose id is not in the log that a kill of the
\* process in this state would leave
Unlogged == {r \in Succeeded : source[r].id \notin LogIds(migrationLog)}

\* C13: in every state of a run of migrate.py at most BATCH_SIZE rows enriched
\* in the run have their id missing from the persisted log.
C13_AtMostOneBatchUnlogged ==
  (running /\ script = "migrate") => Cardinality(Unlogged) <= BATCH_SIZE

\* task w has been submitted to the pool and main has not collected its result
Pending(w) == pc[w] \in {"queued", "oracle", "returned"}

\* main of migrate.py is saving the stores or the log of a batch
Flushing == pc[Main] \in {"m_save", "m_open", "m_dump", "m_log_dump"}

\* the rows of the batches after the current one
LaterBatches ==
  {rows_to_process[i] : i \in {j \in DOMAIN rows_to_process : j >= idx + BATCH_SIZE}}

\* C14: in migrate.py no task is pending while main saves the stores and the
\* log of a batch, only tasks of the current batch are ever pending, and no task
\* of a later batch has started.
C14_DrainedBeforeFlush ==
  (running /\ script = "migrate") =>
    /\ Flushing => \A w \in Rows : ~Pending(w)
    /\ \A w \in Rows : Pending(w) => (w \in Batch /\ pc[Main] = "m_collect")
    /\ \A w \in LaterBatches : pc[w] = "idle"

\* main writes a store of the first batch: the tasks of the batch are
\* collected and a row of the next batch waits
C14_Witness ==
  /\ running /\ script = "migrate"
  /\ pc[Main] = "m_dump"
  /\ Cardinality(Batch) = BATCH_SIZE
  /\ \A w \in Batch : pc[w] = "collected"
  /\ LaterBatches # {}

\* the rows a worker was started for in this run: enriched, failed or in progress
Dispatched == {r \in Rows : outcome[r] \in {"ok", "failed"} \/ pc[r] = "oracle"}

\* C15: the tasks the pool executes, and so the oracle calls in progress, are
\* at most the worker budget of the script; the oracle calls of a run are one
\* per dispatched row; and when the run has ended every row that passed the
\* skip filter has been dispatched.
C15_BoundedParallelism ==
  /\ script = "import" => Cardinality(InPool) <= WORKERS
  /\ script = "migrate" => Cardinality(InPool) <= MAX_WORKERS
  /\ calls = Cardinality(Dispatched)
  /\ RunEnded =>
       \A r \in SourceRows :
         outcome[r] \in {"ok", "failed"} <=>
           (source[r].id \notin LogIds(StartLog) /\ ~(script = "import" /\ source[r].poison))

\* the pool is full and a submitted task waits in its queue
C15_Witness ==
  /\ running
  /\ Cardinality(InPool) = Budget
  /\ Queued # {}
  /\ \E w \in InPool : pc[w] = "oracle"

\* the oracle has answered task w and the task holds its record and its route
Routed(w) == q_data[w] # NoRec

\* the label l matches a key of the table, as it is or after normalisation
Matches(l) ==
  \E i \in DOMAIN CATEGORY_FILES :
    \/ CATEGORY_FILES[i].key = Lower(l)
    \/ Contains(CATEGORY_FILES[i].key,
                IF script = "migrate" THEN category_name(l)
                ELSE Replace(category_name(l), "-", "_"))

\* C16: whatever label the oracle answers with, the task that routed it holds a
\* destination, and it is a file name of the table or the fallback.
C16_RoutingTotal ==
  \A w \in Rows : Routed(w) => (dest[w] # "" /\ dest[w] \in DestFiles)

\* a task has routed a label that matches no key of the table
C16_Witness ==
  \E w \in Rows :
    /\ Routed(w)
    /\ \A l \in labels : ~Matches(l)
    /\ dest[w] \in {"blandat.yaml", "internmedicin.yaml"}

\* the route of the three tiers: the store of the key the label equals, else
\* of the first key of the table the normalised label contains, else the
\* fallback store of the script
ThreeTier(l) ==
  LET normalised == IF script = "migrate" THEN category_name(l)
                    ELSE Replace(category_name(l), "-", "_")
      exact == {i \in DOMAIN CATEGORY_FILES : CATEGORY_FILES[i].key = Lower(l)}
      fuzzy == {i \in DOMAIN CATEGORY_FILES : Contains(CATEGORY_FILES[i].key, normalised)}
      First(S) == CHOOSE i \in S : \A j \in S : i <= j
  IN  IF exact # {} THEN CATEGORY_FILES[First(exact)].file
      ELSE IF fuzzy # {} THEN CATEGORY_FILES[First(fuzzy)].file
      ELSE IF script = "migrate" THEN "internmedicin.yaml" ELSE "blandat.yaml"

\* C17: the route a task holds is the route of the three tiers for the label
\* the oracle answered with.
C17_ThreeTierOrder ==
  \A w \in Rows : Routed(w) => \E l \in labels : dest[w] = ThreeTier(l)

\* the rows of the source that ask for an image
PoisonRows == {r \in SourceRows : source[r].poison}

\* C18: in import_new_questions_csv.py an image row is never given to a worker
\* and has no record in any store; once main has passed it, and after the run,
\* its id is in the persisted log whenever the log is not being rewritten; and
\* a run after the one that marked it skips it.
C18_PoisonPolicy ==
  script = "import" =>
    \A r \in PoisonRows :
      /\ pc[r] = "idle"
      /\ r \notin Range(rows_to_process)
      /\ outcome[r] \in {"none", "poison", "skipped"}
      /\ Copies(store, source[r].id) = 0
      /\ ((idx > r \/ RunEnded) /\ importLog.st # "empty") => source[r].id \in LogIds(importLog)
      /\ (runs >= 2 /\ prev.outcome[r] \in {"poison", "skipped"}) =>
           outcome[r] \in {"none", "skipped"}

\* a second run has ended: it skipped the image row the first run marked, and
\* rows were enriched in the first run
C18_Witness ==
  /\ script = "import" /\ runs = 2 /\ ~running
  /\ \E r \in PoisonRows : prev.outcome[r] = "poison" /\ outcome[r] = "skipped"
  /\ \E r \in Rows : prev.outcome[r] = "ok"
  /\ calls = 0

\* C19: the oracle requests of a run are one per dispatched row; a row whose
\* request failed has no record in any store, its id is not in the log, its
\* task does nothing more; and the run after dispatches it again.
C19_FailedNotRetriedInRun ==
  /\ calls = Cardinality(Dispatched)
  /\ \A r \in Failed :
       /\ Copies(store, source[r].id) = 0
       /\ source[r].id \notin LogIds(Log)
       /\ pc[r] \in {"idle", "done", "returned", "collected"}
       /\ q_data[r] = NoRec
  /\ (runs >= 2 /\ RunEnded) =>
       \A r \in SourceRows : prev.outcome[r] = "failed" => outcome[r] \in {"ok", "failed"}

\* a second run has ended: a row that failed in the first run was enriched in
\* the second, while another row failed in the second
C19_Witness ==
  /\ runs = 2 /\ ~running
  /\ \E r \in Rows : prev.outcome[r] = "failed" /\ outcome[r] = "ok"
  /\ \E r \in Rows : outcome[r] = "failed"
  /\ calls >= 2

\* the records persisted in the stores, by file and position
Positions ==
  {<<f, i>> \in Files \X (1..(2 * MaxRuns + NumRows * MaxRuns)) :
     i \in DOMAIN Persisted(store[f])}

\* C20: no two records of the destination stores have the same id.
C20_IdsUnique ==
  \A a, b \in Positions : a # b => store[a[1]].v[a[2]].id # store[b[1]].v[b[2]].id

(***************************************************************************)
(* Namespaces of ids                                                       *)
(***************************************************************************)
\* the prefix of the ids a script gives to what it writes
OwnPrefix ==
  IF script = "import" THEN "imp"
  ELSE IF script = "generate" THEN id_prefix
  ELSE "med"

\* C21: every record a run writes carries the prefix of the namespace of the
\* script that writes it: "imp" for the import, "med" for the migration, and
\* for generate.py the prefix of the selected subject ("kor" for
\* korkortsteori, "med" for medical_exam)
C21_OwnNamespacePrefix ==
  \A f \in Files : \A i \in NewPos(f) :
    Prefix(IdText(store[f].v[i].id), 3) = PrefixText(OwnPrefix)

(***************************************************************************)
(* What a run reports                                                      *)
(***************************************************************************)
\* every failed enrichment of the run has its line, with the id and the cause
FailuresReported ==
  \A r \in Failed :
    \E l \in printed : l.kind = "failed" /\ l.id = source[r].id /\ l.cause # ""

\* a failure leaves no dispatched row without a result when the run ends
BatchNotStopped ==
  RunEnded => \A r \in Rows : outcome[r] # "none" \/ r \notin SourceRows

\* C22: a run that ended has printed a summary line with the number of
\* successes and the number of failures of the run; every failure has been
\* printed with its id and cause, and did not stop the other rows
C22_SummaryClosesRun ==
  /\ FailuresReported
  /\ BatchNotStopped
  /\ (RunEnded /\ script \in {"import", "migrate"}) =>
       \E l \in printed :
         l.counts = <<Cardinality(Succeeded), Cardinality(Failed)>>

(***************************************************************************)
(* Locks                                                                   *)
(***************************************************************************)
\* the locks a thread holds
HeldBy(t) == {l \in {log_lock} \cup {file_locks[f] : f \in Files} : <<l, t>> \in held}

\* C23: a task whose enrichment request is in flight holds no lock, and
\* log_lock is held only by a thread that is inside append_to_log, between
\* its read of the log and the end of its rewrite
C23_NoLockAcrossEnrichment ==
  /\ \A w \in Rows : pc[w] \in {"queued", "oracle"} => HeldBy(w) = {}
  /\ \A t \in Threads :
       <<log_lock, t>> \in held =>
         pc[t] \in {"log_read", "log_open", "log_dump", "log_release"}

\* a request is in flight while another task rewrites the log under log_lock
C23_Witness ==
  /\ script = "import"
  /\ \E w, v \in Rows :
       /\ pc[w] = "oracle" /\ HeldBy(w) = {}
       /\ pc[v] = "log_dump" /\ HeldBy(v) = {log_lock}

\* main waits in as_completed and every task it submitted has returned
AllReturned == pc[Main] = "join" /\ \A w \in Submitted : pc[w] = "done"

\* C24: the import cannot deadlock.  No thread holds two locks at once, the
\* locks are all free when every task has returned, and under fair scheduling
\* a run that was started ends
C24_ImportTerminates ==
  /\ [](\A t \in Threads : Cardinality(HeldBy(t)) <= 1)
  /\ [](AllReturned => held = {})
  /\ (running /\ script = "import") ~> ~running

\* a task waits for the lock of a store while the holder is inside a write
\* that can raise
C24_Witness ==
  /\ script = "import"
  /\ \E w, v \in Rows :
       /\ pc[w] = "acquire_store" /\ lk[w] = lk[v] /\ HeldBy(w) = {}
       /\ pc[v] = "dump_store" /\ <<lk[v], v>> \in held

\* the store of a label of the enumeration: the file the table gives for the
\* category of that name (the enumeration lists the categories in the order
\* of the first 17 entries of the table)
OwnStore(l) ==
  CATEGORY_FILES[CHOOSE i \in DOMAIN CategoryEnum : CategoryEnum[i] = l].file

\* C25: a label of the enumeration the oracle may answer with is routed to
\* the store of its own category, by get_dest_file and by process_question
C25_EnumRoutedToOwnStore ==
  \A w \in Rows :
    Routed(w) =>
      \A l \in labels : l \in Range(CategoryEnum) => dest[w] = OwnStore(l)

\* C26: the log never runs ahead of the stores.  In every state a process can
\* leave behind, at its end or at a kill, each id of the persisted log that
\* is not the id of an image row has its record persisted in a store
C26_LogNeverAhead ==
  ~running =>
    \A r \in SourceRows :
      (source[r].id \in LogIds(Log) /\ ~(script = "import" /\ source[r].poison))
        => Copies(store, source[r].id) >= 1

\* the rows with source id x that a task was given in this run
Enriched(x) ==
  {r \in SourceRows :
     source[r].id = x /\ (pc[r] # "idle" \/ outcome[r] \in {"ok", "failed"})}

\* C27: within one run at most one row per source id is given to a worker and
\* at most one record per source id is added to the stores, also when the
\* source has two rows with the same id; a row whose id the same run has
\* poison-marked is not given to a worker
C27_OncePerSourceId ==
  \A x \in Ids(SourceRows) :
    /\ Cardinality(Enriched(x)) <= 1
    /\ Copies(store, x) <= Copies(start.store, x) + 1
    /\ (\E r \in PoisonMarked : source[r].id = x) => Enriched(x) = {}

\* C28: a call of safe_append_yaml loses no stored record: when its dump is
\* done the file holds every record that a call of safe_append_yaml has
\* appended to it, and the new record at the end, whatever the file was when
\* the call read it (absent, a list, or what a kill left of it)
C28_AppendKeepsStored ==
  \A w \in Rows :
    (script = "import" /\ pc[w] = "release_store") =>
      /\ appended[dest[w]] \subseteq Range(Persisted(store[dest[w]]))
      /\ Persisted(store[dest[w]]) # <<>>
      /\ store[dest[w]].v[Len(store[dest[w]].v)] = q_data[w]

(***************************************************************************)
(* The reset of an import                                                  *)
(***************************************************************************)
\* a list without the records of the import namespace, the others in order
WithoutImported(l) == SelectSeq(l, LAMBDA q : q.id.ns # "imp")

\* the store files that held a list with a record of the import namespace
\* when the run started
HeldImported ==
  {f \in DestFiles :
     start.store[f].st = "doc" /\ WithoutImported(start.store[f].v) # start.store[f].v}

CleanupEnded == RunEnded /\ script \in {"cleanup_previous_import", "cleanup_imports"}

\* C29: after a cleanup every store that held a list holds that list without
\* its 'imp-' records, the other records in their order; only the stores that
\* held such a record were rewritten; and the import log holds no id
C29_ResetUndoesImport ==
  CleanupEnded =>
    /\ \A f \in HeldImported : store[f] = DocList(WithoutImported(start.store[f].v))
    /\ \A f \in Files \ HeldImported : store[f] = start.store[f]
    /\ writes = Cardinality(HeldImported)
    /\ importLog.st \in {"absent", "doc"} /\ LogIds(importLog) = {}
    /\ migrationLog = start.migrationLog

\* a cleanup has ended: one store held an 'imp-' record between two others
\* and was rewritten, another held none and was left alone, and the log held
\* two ids
C29_Witness ==
  /\ CleanupEnded
  /\ start.store["neurologi.yaml"] =
       DocList(<<MigratedRecord(3), ImportedRecord(1), MigratedRecord(4)>>)
  /\ store["neurologi.yaml"] = DocList(<<MigratedRecord(3), MigratedRecord(4)>>)
  /\ start.store["kardiologi.yaml"] = DocList(<<MigratedRecord(5)>>)
  /\ store["kardiologi.yaml"] = start.store["kardiologi.yaml"]
  /\ writes = 1
  /\ start.importLog = DocSet({1, 2})

\* the number of records a run has removed from the stores
Removed == Total(start.store) - Total(store)

\* C30: the total that cleanup_imports.py prints at its end is the number of
\* records the run removed, the sum of the removed_count of the rewritten files
C30_TotalIsSumOfRemoved ==
  (RunEnded /\ script = "cleanup_imports") =>
    \E l \in printed : l.kind = "total" /\ l.counts = <<Removed>>

====
